---- MODULE Spec2Model ----
(***************************************************************************)
(* Model of src/src/index.js: the HTMLRewriter walk of                     *)
(* extractPageDataFromHtml, the text normalizers and the Markdown renderer.*)
(* Text is a sequence of one-character strings, so that the normalizers    *)
(* are computed character by character as the regular expressions do.      *)
(***************************************************************************)
EXTENDS Integers, Sequences, FiniteSets, TLC

(***************************************************************************)
(* Bounds of the model.                                                    *)
(***************************************************************************)
\* events of one walk
MaxEvents == 5
\* elements open at once
MaxDepth == 3
\* metadata tags of one document
MaxMeta == 3
\* blocks handed to the renderer
MaxBlocks == 3
\* text chunks inside the h1 elements of one document
MaxParts == 3
\* text and br events inside one paragraph
MaxPieces == 3

(***************************************************************************)
(* Characters and strings.                                                 *)
(***************************************************************************)
\* U+00A0, which String.fromCodePoint(160) yields and \s matches
NBSP == "NBSP"
\* any character the model does not name
OtherChar == "?"

\* the characters JavaScript's \s and String.prototype.trim treat as space
IsSpace(c) == c \in {" ", "\t", "\n", "\r", "\f", NBSP}

BR_TOKEN == <<"_", "_", "S", "S", "M", "D", "_", "B", "R", "_", "_">>

StartsWith(s, p) == Len(s) >= Len(p) /\ SubSeq(s, 1, Len(p)) = p

Drop(s, n) == SubSeq(s, n + 1, Len(s))

RECURSIVE Contains(_, _)
\* String.prototype.includes
Contains(s, p) ==
  IF Len(s) < Len(p) THEN FALSE
  ELSE StartsWith(s, p) \/ Contains(Tail(s), p)

RECURSIVE ReplaceAll(_, _, _)
\* s.replace(/p/g, r) for a literal pattern p
ReplaceAll(s, p, r) ==
  IF Len(s) < Len(p) \/ p = <<>> THEN s
  ELSE IF StartsWith(s, p) THEN r \o ReplaceAll(Drop(s, Len(p)), p, r)
  ELSE <<Head(s)>> \o ReplaceAll(Tail(s), p, r)

RECURSIVE SpaceRun(_)
\* length of the run of \s characters s starts with
SpaceRun(s) ==
  IF s = <<>> \/ ~IsSpace(Head(s)) THEN 0 ELSE 1 + SpaceRun(Tail(s))

RECURSIVE CollapseSpace(_)
\* s.replace(/\s+/g, " ")
CollapseSpace(s) ==
  IF s = <<>> THEN <<>>
  ELSE IF IsSpace(Head(s)) THEN <<" ">> \o CollapseSpace(Drop(s, SpaceRun(s)))
  ELSE <<Head(s)>> \o CollapseSpace(Tail(s))

RECURSIVE TrimEnd(_)
TrimEnd(s) ==
  IF s = <<>> \/ ~IsSpace(s[Len(s)]) THEN s
  ELSE TrimEnd(SubSeq(s, 1, Len(s) - 1))

\* String.prototype.trim
Trim(s) == TrimEnd(Drop(s, SpaceRun(s)))

(***************************************************************************)
(* decodeHtmlEntities                                                      *)
(***************************************************************************)
DecDigits == {"0", "1", "2", "3", "4", "5", "6", "7", "8", "9"}
HexDigits == DecDigits \cup {"a", "b", "c", "d", "e", "f", "A", "B", "C", "D", "E", "F"}

DigitValue(c) ==
  CASE c = "0" -> 0 [] c = "1" -> 1 [] c = "2" -> 2 [] c = "3" -> 3
    [] c = "4" -> 4 [] c = "5" -> 5 [] c = "6" -> 6 [] c = "7" -> 7
    [] c = "8" -> 8 [] c = "9" -> 9
    [] c \in {"a", "A"} -> 10 [] c \in {"b", "B"} -> 11
    [] c \in {"c", "C"} -> 12 [] c \in {"d", "D"} -> 13
    [] c \in {"e", "E"} -> 14 [] c \in {"f", "F"} -> 15

RECURSIVE ParseInt(_, _, _)
\* parseInt(digits, radix), acc the value of the digits read so far
ParseInt(ds, radix, acc) ==
  IF ds = <<>> THEN acc
  ELSE ParseInt(Tail(ds), radix, acc * radix + DigitValue(Head(ds)))

MaxCodePoint == 1114111

\* String.fromCodePoint for a code point in range
FromCodePoint(cp) ==
  CASE cp = 9 -> "\t" [] cp = 10 -> "\n" [] cp = 12 -> "\f" [] cp = 13 -> "\r"
    [] cp = 32 -> " " [] cp = 34 -> "\"" [] cp = 38 -> "&" [] cp = 39 -> "'"
    [] cp = 60 -> "<" [] cp = 62 -> ">" [] cp = 95 -> "_"
    [] cp = 97 -> "a" [] cp = 98 -> "b" [] cp = 160 -> NBSP
    [] OTHER -> OtherChar

RECURSIVE DigitRun(_, _)
\* length of the run of characters of ds that s starts with
DigitRun(s, ds) ==
  IF s = <<>> \/ Head(s) \notin ds THEN 0 ELSE 1 + DigitRun(Tail(s), ds)

RECURSIVE ReplaceNumeric(_, _, _, _)
\* s.replace(/<prefix>([digits]+);/g, (m, d) => fromCodePoint(parseInt(d, radix)))
\* with the match left verbatim when fromCodePoint throws
ReplaceNumeric(s, prefix, ds, radix) ==
  IF s = <<>> THEN <<>>
  ELSE
    LET n == IF StartsWith(s, prefix) THEN DigitRun(Drop(s, Len(prefix)), ds) ELSE 0
        m == Len(prefix) + n + 1
    IN IF n > 0 /\ Len(s) >= m /\ s[m] = ";"
       THEN LET cp == ParseInt(SubSeq(s, Len(prefix) + 1, Len(prefix) + n), radix, 0)
            IN (IF cp <= MaxCodePoint THEN <<FromCodePoint(cp)>> ELSE SubSeq(s, 1, m))
               \o ReplaceNumeric(Drop(s, m), prefix, ds, radix)
       ELSE <<Head(s)>> \o ReplaceNumeric(Tail(s), prefix, ds, radix)

decodeHtmlEntities(s) ==
  IF ~Contains(s, <<"&">>) THEN s
  ELSE
    LET s1 == ReplaceAll(s, <<"&", "n", "b", "s", "p", ";">>, <<" ">>)
        s2 == ReplaceAll(s1, <<"&", "a", "m", "p", ";">>, <<"&">>)
        s3 == ReplaceAll(s2, <<"&", "l", "t", ";">>, <<"<">>)
        s4 == ReplaceAll(s3, <<"&", "g", "t", ";">>, <<">">>)
        s5 == ReplaceAll(s4, <<"&", "q", "u", "o", "t", ";">>, <<"\"">>)
        s6 == ReplaceAll(s5, <<"&", "#", "3", "9", ";">>, <<"'">>)
        s7 == ReplaceAll(s6, <<"&", "a", "p", "o", "s", ";">>, <<"'">>)
        s8 == ReplaceNumeric(s7, <<"&", "#", "x">>, HexDigits, 16)
    IN ReplaceNumeric(s8, <<"&", "#">>, DecDigits, 10)

(***************************************************************************)
(* normalizeInlineText and normalizeBlockText                              *)
(***************************************************************************)
normalizeInlineText(text) == Trim(CollapseSpace(decodeHtmlEntities(text)))

RECURSIVE ExpandBr(_)
\* t.replace(new RegExp(`\\s*${BR_TOKEN}\\s*`, "g"), "\n")
ExpandBr(s) ==
  IF s = <<>> THEN <<>>
  ELSE
    LET k == SpaceRun(s)
        rest == Drop(s, k)
    IN IF StartsWith(rest, BR_TOKEN)
       THEN LET after == Drop(rest, Len(BR_TOKEN))
            IN <<"\n">> \o ExpandBr(Drop(after, SpaceRun(after)))
       ELSE <<Head(s)>> \o ExpandBr(Tail(s))

RECURSIVE NewlineRun(_)
NewlineRun(s) ==
  IF s = <<>> \/ Head(s) # "\n" THEN 0 ELSE 1 + NewlineRun(Tail(s))

RECURSIVE CollapseNewlines(_)
\* t.replace(/\n{3,}/g, "\n\n")
CollapseNewlines(s) ==
  IF s = <<>> THEN <<>>
  ELSE
    LET n == NewlineRun(s)
    IN IF n >= 3 THEN <<"\n", "\n">> \o CollapseNewlines(Drop(s, n))
       ELSE <<Head(s)>> \o CollapseNewlines(Tail(s))

normalizeBlockText(text) ==
  LET t0 == ReplaceAll(decodeHtmlEntities(text), <<"\r">>, <<>>)
      t1 == Trim(CollapseSpace(t0))
      t2 == ExpandBr(t1)
      t3 == CollapseNewlines(t2)
  IN Trim(t3)

(***************************************************************************)
(* URLs: new URL(href, base).toString() on the URLs of the model.          *)
(***************************************************************************)
\* the scheme of every absolute URL of the model, "h:"
Scheme == <<"h", ":">>

IsAbsoluteUrl(u) == StartsWith(u, Scheme \o <<"/", "/">>) /\ Len(u) > 4

RECURSIVE PathStart(_, _)
\* index of the first "/" of u at or after position i, Len(u) + 1 if none
PathStart(u, i) ==
  IF i > Len(u) THEN i ELSE IF u[i] = "/" THEN i ELSE PathStart(u, i + 1)

\* scheme and authority of an absolute URL
UrlOrigin(u) == SubSeq(u, 1, PathStart(u, 5) - 1)

RECURSIVE LastSlash(_, _)
LastSlash(u, i) ==
  IF i = 0 THEN 0 ELSE IF u[i] = "/" THEN i ELSE LastSlash(u, i - 1)

\* an absolute URL with an empty path is serialized with the path "/"
UrlSerialize(u) == IF PathStart(u, 5) > Len(u) THEN u \o <<"/">> ELSE u

\* [ok |-> the constructor did not throw, url |-> its toString()]
ResolveUrl(href, base) ==
  IF IsAbsoluteUrl(href) THEN [ok |-> TRUE, url |-> UrlSerialize(href)]
  ELSE IF ~IsAbsoluteUrl(base) THEN [ok |-> FALSE, url |-> <<>>]
  ELSE IF href = <<>> THEN [ok |-> TRUE, url |-> UrlSerialize(base)]
  ELSE IF Head(href) = "/" THEN [ok |-> TRUE, url |-> UrlOrigin(base) \o href]
  ELSE LET b == UrlSerialize(base)
       IN [ok |-> TRUE, url |-> SubSeq(b, 1, LastSlash(b, Len(b))) \o href]

(***************************************************************************)
(* The inputs of the model.                                                *)
(***************************************************************************)
\* the fallbackUrl argument: the clean page URL, "h://x/p"
fallbackUrl == <<"h", ":", "/", "/", "x", "/", "p">>

\* text chunks: "a", " " and "&nbsp;"
TextChunks == {<<"a">>, <<" ">>, <<"&", "n", "b", "s", "p", ";">>}

\* href attributes of <a>: "/a" and absent
Hrefs == {<<"/", "a">>, <<>>}

\* content attributes of <meta name="description">: " ", "d", "e"
DescriptionValues == {<<" ">>, <<"d">>, <<"e">>}

\* href attributes of <link rel="canonical">: " ", "h://c/" and "c"
CanonicalValues == {<<" ">>, <<"h", ":", "/", "/", "c", "/">>, <<"c">>}

BlockTags == {"h2", "h3", "p"}
InlineTags == {"strong", "em"}

(***************************************************************************)
(* The walk's state (index.js 221-233) and the element stack of the        *)
(* rewriter.                                                               *)
(***************************************************************************)
VARIABLES
  state,     \* the state object of extractPageDataFromHtml
  open,      \* the elements now open, outermost first: tag, whether an
             \* onEndTag handler was registered, and (for an li) the text
             \* seen inside it, outside any nested li and any hyperlink
  liClosed,  \* li elements closed so far whose own text normalizes non-empty
  owner,     \* position in open of the element whose start opened the block
             \* now in state.current, 0 when no block is open
  textIn,    \* non-blank text chunks delivered so far inside an h2, h3, p or li
  pieces,    \* the text and br events appended to the text of the open block
             \* itself since it was opened, in order
  nEvents,   \* events delivered so far
  nMeta,     \* metadata tags among them
  done,      \* the rewriter reached the end of the document
  result,    \* the value extractPageDataFromHtml returns
  worker     \* the fetch handler of the Worker: its request, its position
             \* and its response

vars == <<state, open, liClosed, owner, textIn, pieces, nEvents, nMeta, done, result, worker>>

\* state.current = null
Null == [kind |-> "none", text |-> <<>>]

NoResult == [title |-> <<>>, description |-> <<>>, url |-> <<>>, content |-> <<>>]

\* no Response built yet
NoResponse == [status |-> 0, contentType |-> "", cacheControl |-> "", body |-> <<>>]

\* the requests: the value of the format query parameter ("" when the URL has
\* none) and whether the path ends in ".md"
Requests == [format : {"", "markdown", "json"}, mdPath : BOOLEAN]

\* the bindings: TEST_HTML is a non-empty string, GA4_MEASUREMENT_ID is set,
\* GA4_API_SECRET is set
Envs == [TEST_HTML : BOOLEAN, GA4_MEASUREMENT_ID : BOOLEAN, GA4_API_SECRET : BOOLEAN]

\* fetch(request, env, ctx) at its first statement; waitUntil tells whether
\* ctx has a waitUntil method
NewWorker(request, env, waitUntil) ==
  [request |-> request, env |-> env, waitUntil |-> waitUntil,
   pc |-> "start",          \* the statement the handler is at
   pageData |-> NoResult,   \* the value extractPageDataFromHtml returned
   markdown |-> <<>>,       \* the value buildMarkdown returned
   completed |-> {},        \* the steps of the try block that completed
   thrown |-> "",           \* the step that threw inside the try block
   sent |-> "none",         \* the promise sendGa4Event returned
   p |-> "none",            \* that promise with .catch(() => {}) chained
   waited |-> FALSE,        \* ctx.waitUntil(p) was called
   response |-> NoResponse]

\* the handler of a ?format=markdown request awaiting extractPageDataFromHtml
Extracting ==
  [NewWorker([format |-> "markdown", mdPath |-> FALSE],
             [TEST_HTML |-> TRUE, GA4_MEASUREMENT_ID |-> FALSE,
              GA4_API_SECRET |-> FALSE], FALSE)
   EXCEPT !.pc = "extract"]

(***************************************************************************)
(* The closures of extractPageDataFromHtml, as functions of the state.     *)
(***************************************************************************)
beginBlock(st, kind) == [st EXCEPT !.current = [kind |-> kind, text |-> <<>>]]

\* appendToCurrent without the link stack: text goes straight to the block
appendToCurrent_IgnoreLinks(st, s) ==
  IF st.current = Null THEN st ELSE [st EXCEPT !.current.text = @ \o s]

\* appendToCurrent testing the link stack before the open block
appendToCurrent_LinkFirst(st, s) ==
  IF st.linkStack # <<>>
  THEN [st EXCEPT !.linkStack[Len(st.linkStack)].text = @ \o s]
  ELSE IF st.current = Null THEN st
  ELSE [st EXCEPT !.current.text = @ \o s]

appendToCurrent(st, s) ==
  IF st.current = Null THEN st
  ELSE IF st.linkStack # <<>>
  THEN [st EXCEPT !.linkStack[Len(st.linkStack)].text = @ \o s]
  ELSE [st EXCEPT !.current.text = @ \o s]

\* endBlock without the test for empty text
endBlock_KeepEmpty(st) ==
  IF st.current = Null THEN st
  ELSE
    LET kind == st.current.kind
        text == IF kind \in {"h2", "h3", "li"}
                THEN normalizeInlineText(st.current.text)
                ELSE normalizeBlockText(st.current.text)
    IN [st EXCEPT !.blocks = Append(@, [kind |-> kind, text |-> text]),
                  !.current = Null]

endBlock(st) ==
  IF st.current = Null THEN st
  ELSE
    LET kind == st.current.kind
        text == IF kind \in {"h2", "h3", "li"}
                THEN normalizeInlineText(st.current.text)
                ELSE normalizeBlockText(st.current.text)
    IN [st EXCEPT !.blocks = IF text # <<>>
                             THEN Append(@, [kind |-> kind, text |-> text])
                             ELSE @,
                  !.current = Null]

\* pushLink without the try/catch around new URL: the throw leaves the
\* handler before the push
pushLink_NoCatch(st, href) ==
  LET base == IF st.canonical # <<>> THEN st.canonical ELSE fallbackUrl
      r == ResolveUrl(href, base)
  IN IF r.ok THEN [st EXCEPT !.linkStack = Append(@, [href |-> r.url, text |-> <<>>])]
     ELSE st

\* pushLink resolving against the fallback URL whatever canonical is stored
pushLink_FallbackBase(st, href) ==
  LET r == ResolveUrl(href, fallbackUrl)
      resolved == IF r.ok THEN r.url ELSE href
  IN [st EXCEPT !.linkStack = Append(@, [href |-> resolved, text |-> <<>>])]

pushLink(st, href) ==
  LET base == IF st.canonical # <<>> THEN st.canonical ELSE fallbackUrl
      r == ResolveUrl(href, base)
      resolved == IF r.ok THEN r.url ELSE href
  IN [st EXCEPT !.linkStack = Append(@, [href |-> resolved, text |-> <<>>])]

\* popLinkToCurrent without the fallback to the href
popLinkToCurrent_NoHrefFallback(st) ==
  IF st.linkStack = <<>> THEN st
  ELSE
    LET link == st.linkStack[Len(st.linkStack)]
        popped == [st EXCEPT !.linkStack = SubSeq(@, 1, Len(@) - 1)]
        text == normalizeInlineText(link.text)
    IN IF text = <<>> THEN popped
       ELSE appendToCurrent(popped, <<"[">> \o text \o <<"]", "(">> \o link.href \o <<")">>)

popLinkToCurrent(st) ==
  IF st.linkStack = <<>> THEN st
  ELSE
    LET link == st.linkStack[Len(st.linkStack)]
        popped == [st EXCEPT !.linkStack = SubSeq(@, 1, Len(@) - 1)]
        norm == normalizeInlineText(link.text)
        text == IF norm # <<>> THEN norm ELSE link.href
    IN IF text = <<>> THEN popped
       ELSE appendToCurrent(popped, <<"[">> \o text \o <<"]", "(">> \o link.href \o <<")">>)

stopCollectingTitleIfNeeded(st) ==
  IF st.collectingTitle THEN [st EXCEPT !.collectingTitle = FALSE] ELSE st

(***************************************************************************)
(* dedupeAndJoinTitle and blocksToMarkdown                                 *)
(***************************************************************************)
RECURSIVE JoinWith(_, _)
\* Array.prototype.join(sep)
JoinWith(ss, sep) ==
  IF ss = <<>> THEN <<>>
  ELSE IF Len(ss) = 1 THEN Head(ss)
  ELSE Head(ss) \o sep \o JoinWith(Tail(ss), sep)

RECURSIVE CleanParts(_)
\* parts.map((p) => normalizeInlineText(p)).filter(Boolean)
CleanParts(parts) ==
  IF parts = <<>> THEN <<>>
  ELSE LET p == normalizeInlineText(Head(parts))
       IN (IF p # <<>> THEN <<p>> ELSE <<>>) \o CleanParts(Tail(parts))

RECURSIVE Uniq(_, _)
\* the order-preserving de-dupe loop, uniq the array built so far
Uniq(cleaned, uniq) ==
  IF cleaned = <<>> THEN uniq
  ELSE IF \E i \in 1..Len(uniq) : uniq[i] = Head(cleaned)
  THEN Uniq(Tail(cleaned), uniq)
  ELSE Uniq(Tail(cleaned), Append(uniq, Head(cleaned)))

\* dedupeAndJoinTitle without the de-dupe loop
dedupeAndJoinTitle_NoDedupe(parts) == Trim(JoinWith(CleanParts(parts), <<" ">>))

dedupeAndJoinTitle(parts) == Trim(JoinWith(Uniq(CleanParts(parts), <<>>), <<" ">>))

\* the Markdown line of one block
BlockLine(b) ==
  CASE b.kind = "h2" -> <<"#", "#", " ">> \o b.text
    [] b.kind = "h3" -> <<"#", "#", "#", " ">> \o b.text
    [] b.kind = "li" -> <<"-", " ">> \o b.text
    [] OTHER -> b.text

RECURSIVE BlockLines(_, _)
\* the lines array after the loop has run from block i on
BlockLines(blocks, i) ==
  IF i > Len(blocks) THEN <<>>
  ELSE <<BlockLine(blocks[i])>>
       \o (IF i < Len(blocks) /\ ~(blocks[i].kind = "li" /\ blocks[i + 1].kind = "li")
           THEN <<<<>>>> ELSE <<>>)
       \o BlockLines(blocks, i + 1)

RECURSIVE LooseLines(_, _)
\* the lines array with a blank line pushed after every block but the last
LooseLines(blocks, i) ==
  IF i > Len(blocks) THEN <<>>
  ELSE <<BlockLine(blocks[i])>>
       \o (IF i < Len(blocks) THEN <<<<>>>> ELSE <<>>)
       \o LooseLines(blocks, i + 1)

\* blocksToMarkdown without the test for two list items
blocksToMarkdown_Loose(blocks) == Trim(JoinWith(LooseLines(blocks, 1), <<"\n">>))

blocksToMarkdown(blocks) == Trim(JoinWith(BlockLines(blocks, 1), <<"\n">>))

(***************************************************************************)
(* buildMarkdown                                                           *)
(***************************************************************************)
MARKDOWN_VERSION == <<"1", ".", "1", ".", "0">>

\* s.replace(/"/g, '\\"')
EscapeQuotes(s) == ReplaceAll(s, <<"\"">>, <<"\\", "\"">>)

\* a frontmatter line: key, colon, space, the value in double quotes, newline
FrontmatterLine(key, value) == key \o <<":", " ", "\"">> \o value \o <<"\"", "\n">>

buildMarkdown(title, description, url, content) ==
  <<"-", "-", "-", "\n">>
  \o FrontmatterLine(<<"v", "e", "r", "s", "i", "o", "n">>, MARKDOWN_VERSION)
  \o FrontmatterLine(<<"t", "i", "t", "l", "e">>, EscapeQuotes(title))
  \o FrontmatterLine(<<"d", "e", "s", "c", "r", "i", "p", "t", "i", "o", "n">>,
                     EscapeQuotes(description))
  \o FrontmatterLine(<<"u", "r", "l">>, url)
  \o <<"-", "-", "-", "\n", "\n">>
  \o <<"#", " ">> \o title \o <<"\n", "\n">>
  \o (IF description # <<>> THEN <<">", " ">> \o description \o <<"\n", "\n">> ELSE <<>>)
  \o content

(***************************************************************************)
(* The walk.                                                               *)
(***************************************************************************)
InitState ==
  [description |-> <<>>, canonical |-> <<>>, titleParts |-> <<>>,
   collectingTitle |-> TRUE, blocks |-> <<>>, current |-> Null,
   inLiDepth |-> 0, linkStack |-> <<>>]

Init ==
  /\ state = InitState
  /\ open = <<>>
  /\ liClosed = 0
  /\ owner = 0
  /\ textIn = 0
  /\ pieces = <<>>
  /\ nEvents = 0
  /\ nMeta = 0
  /\ done = FALSE
  /\ result = NoResult
  /\ worker = Extracting

Tags(o) == {o[i].tag : i \in 1..Len(o)}

Elem(tag, reg) == [tag |-> tag, reg |-> reg, own |-> <<>>]

CanStep == ~done /\ nEvents < MaxEvents
CanOpen == CanStep /\ Len(open) < MaxDepth
CanMeta == CanStep /\ nMeta < MaxMeta

\* the description handler without the test for a value already stored
MetaDescription_LastWins(v) ==
  /\ CanMeta
  /\ state' = [state EXCEPT !.description = normalizeInlineText(v)]
  /\ nEvents' = nEvents + 1
  /\ nMeta' = nMeta + 1
  /\ UNCHANGED <<open, liClosed, done, result, owner, textIn, worker, pieces>>

\* <meta name="description" content=v>
MetaDescription(v) ==
  /\ CanMeta
  /\ state' = IF state.description = <<>>
              THEN [state EXCEPT !.description = normalizeInlineText(v)]
              ELSE state
  /\ nEvents' = nEvents + 1
  /\ nMeta' = nMeta + 1
  /\ UNCHANGED <<open, liClosed, done, result, owner, textIn, worker, pieces>>

\* <link rel="canonical" href=v>
LinkCanonical(v) ==
  /\ CanMeta
  /\ state' = IF state.canonical = <<>>
              THEN [state EXCEPT !.canonical = normalizeInlineText(v)]
              ELSE state
  /\ nEvents' = nEvents + 1
  /\ nMeta' = nMeta + 1
  /\ UNCHANGED <<open, liClosed, done, result, owner, textIn, worker, pieces>>

\* <h1>: the h1 rule has no element handler
StartH1 ==
  /\ CanOpen
  /\ open' = Append(open, Elem("h1", FALSE))
  /\ nEvents' = nEvents + 1
  /\ UNCHANGED <<state, liClosed, nMeta, done, result, owner, textIn, worker, pieces>>

\* <h2>, <h3> or <p> with onEndTag registered before the test of inLiDepth
StartBlock_AlwaysRegisters(tag) ==
  /\ CanOpen
  /\ IF state.inLiDepth # 0
     THEN /\ state' = state
          /\ owner' = owner
          /\ pieces' = pieces
     ELSE /\ state' = beginBlock(stopCollectingTitleIfNeeded(state), tag)
          /\ owner' = Len(open) + 1
          /\ pieces' = <<>>
  /\ open' = Append(open, Elem(tag, TRUE))
  /\ nEvents' = nEvents + 1
  /\ UNCHANGED <<liClosed, nMeta, done, result, textIn, worker>>

\* <h2>, <h3> or <p>
StartBlock(tag) ==
  /\ CanOpen
  /\ IF state.inLiDepth # 0
     THEN /\ state' = state
          /\ open' = Append(open, Elem(tag, FALSE))
          /\ owner' = owner
          /\ pieces' = pieces
     ELSE /\ state' = beginBlock(stopCollectingTitleIfNeeded(state), tag)
          /\ open' = Append(open, Elem(tag, TRUE))
          /\ owner' = Len(open) + 1
          /\ pieces' = <<>>
  /\ nEvents' = nEvents + 1
  /\ UNCHANGED <<liClosed, nMeta, done, result, textIn, worker>>

\* <li>
StartLi ==
  /\ CanOpen
  /\ state' = beginBlock([stopCollectingTitleIfNeeded(state)
                            EXCEPT !.inLiDepth = @ + 1], "li")
  /\ open' = Append(open, Elem("li", TRUE))
  /\ owner' = Len(open) + 1
  /\ pieces' = <<>>
  /\ nEvents' = nEvents + 1
  /\ UNCHANGED <<liClosed, nMeta, done, result, textIn, worker>>

Marker(tag) == IF tag = "strong" THEN <<"*", "*">> ELSE <<"*">>

\* <strong> or <em>
StartInline(tag) ==
  /\ CanOpen
  /\ state' = appendToCurrent(state, Marker(tag))
  /\ open' = Append(open, Elem(tag, TRUE))
  /\ nEvents' = nEvents + 1
  /\ UNCHANGED <<liClosed, nMeta, done, result, owner, textIn, worker, pieces>>

\* <a href=href>
StartA(href) ==
  /\ CanOpen
  /\ state' = pushLink(state, href)
  /\ open' = Append(open, Elem("a", TRUE))
  /\ nEvents' = nEvents + 1
  /\ UNCHANGED <<liClosed, nMeta, done, result, owner, textIn, worker, pieces>>

\* <br>
Br ==
  /\ CanStep
  /\ state' = appendToCurrent(state, BR_TOKEN)
  /\ pieces' = IF state'.current # state.current
                THEN Append(pieces, [br |-> TRUE, text |-> <<>>]) ELSE pieces
  /\ nEvents' = nEvents + 1
  /\ UNCHANGED <<open, liClosed, nMeta, done, result, owner, textIn, worker>>

\* the h1 text handler without the test of the collecting-title flag
h1Text_Always(st, t) ==
  LET cleaned == normalizeInlineText(t)
  IN IF cleaned # <<>> THEN [st EXCEPT !.titleParts = Append(@, cleaned)] ELSE st

\* the text handler of the h1 rule
h1Text(st, t) ==
  IF ~st.collectingTitle THEN st
  ELSE LET cleaned == normalizeInlineText(t)
       IN IF cleaned # <<>> THEN [st EXCEPT !.titleParts = Append(@, cleaned)] ELSE st

\* the text handler of the h2, h3, p or li rule
blockText(st, kind, t) ==
  IF st.current = Null \/ st.current.kind # kind THEN st ELSE appendToCurrent(st, t)

\* the text handlers of the rules with an open element, in registration order
TextHandlers(st, tags, t) ==
  LET s1 == IF "h1" \in tags THEN h1Text(st, t) ELSE st
      s2 == IF "h2" \in tags THEN blockText(s1, "h2", t) ELSE s1
      s3 == IF "h3" \in tags THEN blockText(s2, "h3", t) ELSE s2
      s4 == IF "p" \in tags THEN blockText(s3, "p", t) ELSE s3
  IN IF "li" \in tags THEN blockText(s4, "li", t) ELSE s4

RECURSIVE InnermostLi(_, _)
\* index in o of the innermost open li at or below i, 0 if none
InnermostLi(o, i) ==
  IF i = 0 THEN 0 ELSE IF o[i].tag = "li" THEN i ELSE InnermostLi(o, i - 1)

\* a text chunk
Text(t) ==
  /\ CanStep
  /\ state' = TextHandlers(state, Tags(open), t)
  /\ open' = LET i == InnermostLi(open, Len(open))
             IN IF i = 0 \/ "a" \in Tags(open) THEN open
                ELSE [open EXCEPT ![i].own = @ \o t]
  /\ textIn' = IF normalizeInlineText(t) # <<>>
                   /\ Tags(open) \cap (BlockTags \cup {"li"}) # {}
                THEN textIn + 1 ELSE textIn
  /\ pieces' = IF state'.current # state.current
                THEN Append(pieces, [br |-> FALSE, text |-> t]) ELSE pieces
  /\ nEvents' = nEvents + 1
  /\ UNCHANGED <<liClosed, nMeta, done, result, owner, worker>>

\* the onEndTag handlers with the li handler leaving inLiDepth alone
endTagHandler_NoDecrement(st, tag) ==
  CASE tag \in BlockTags \cup {"li"} -> endBlock(st)
    [] tag \in InlineTags -> appendToCurrent(st, Marker(tag))
    [] tag = "a" -> popLinkToCurrent(st)
    [] OTHER -> st

\* the onEndTag handler registered for an element of this tag
endTagHandler(st, tag) ==
  CASE tag \in BlockTags -> endBlock(st)
    [] tag = "li" -> [endBlock(st) EXCEPT !.inLiDepth = @ - 1]
    [] tag \in InlineTags -> appendToCurrent(st, Marker(tag))
    [] tag = "a" -> popLinkToCurrent(st)
    [] OTHER -> st

\* the end tag of the innermost open element
EndTag ==
  /\ CanStep
  /\ open # <<>>
  /\ LET e == open[Len(open)]
     IN /\ state' = IF e.reg THEN endTagHandler(state, e.tag) ELSE state
        /\ liClosed' = IF e.tag = "li" /\ normalizeInlineText(e.own) # <<>>
                       THEN liClosed + 1 ELSE liClosed
  /\ open' = SubSeq(open, 1, Len(open) - 1)
  /\ owner' = IF state'.current = Null THEN 0 ELSE owner
  /\ pieces' = IF state'.current = Null THEN <<>> ELSE pieces
  /\ nEvents' = nEvents + 1
  /\ UNCHANGED <<nMeta, done, result, textIn, worker>>

\* the end of the document with the url always the fallback URL
Finish_UrlFallback ==
  /\ ~done
  /\ open = <<>>
  /\ done' = TRUE
  /\ result' = [title |-> dedupeAndJoinTitle(state.titleParts),
                description |-> state.description,
                url |-> fallbackUrl,
                content |-> blocksToMarkdown(state.blocks)]
  /\ UNCHANGED <<state, open, liClosed, nEvents, nMeta, owner, textIn, worker, pieces>>

\* the end of the document: the return value is built
Finish ==
  /\ ~done
  /\ open = <<>>
  /\ done' = TRUE
  /\ result' = [title |-> dedupeAndJoinTitle(state.titleParts),
                description |-> state.description,
                url |-> IF state.canonical # <<>> THEN state.canonical ELSE fallbackUrl,
                content |-> blocksToMarkdown(state.blocks)]
  /\ UNCHANGED <<state, open, liClosed, nEvents, nMeta, owner, textIn, worker, pieces>>

Next ==
  \/ \E v \in DescriptionValues : MetaDescription(v)
  \/ \E v \in CanonicalValues : LinkCanonical(v)
  \/ StartH1
  \/ \E tag \in BlockTags : StartBlock(tag)
  \/ StartLi
  \/ \E tag \in InlineTags : StartInline(tag)
  \/ \E href \in Hrefs : StartA(href)
  \/ Br
  \/ \E t \in TextChunks : Text(t)
  \/ EndTag
  \/ Finish

Spec == Init /\ [][Next]_vars

(***************************************************************************)
(* The walk over documents nested as HTML's content model allows: h1, h2,  *)
(* h3, p, strong and em hold phrasing content only, li and a hold anything.*)
(***************************************************************************)
\* the elements whose content HTML restricts to phrasing content
PhrasingOnly == {"h1", "h2", "h3", "p", "strong", "em"}

\* the nesting of the open elements o is one HTML's content model allows
ValidNesting(o) ==
  \A i, j \in 1..Len(o) :
    i < j /\ o[i].tag \in PhrasingOnly => o[j].tag \in {"strong", "em", "a"}

HtmlStartH1 == StartH1 /\ ValidNesting(open')
HtmlStartBlock(tag) == StartBlock(tag) /\ ValidNesting(open')
HtmlStartLi == StartLi /\ ValidNesting(open')
HtmlStartInline(tag) == StartInline(tag) /\ ValidNesting(open')
HtmlStartA(href) == StartA(href) /\ ValidNesting(open')

NextHtml ==
  \/ \E v \in DescriptionValues : MetaDescription(v)
  \/ \E v \in CanonicalValues : LinkCanonical(v)
  \/ HtmlStartH1
  \/ \E tag \in BlockTags : HtmlStartBlock(tag)
  \/ HtmlStartLi
  \/ \E tag \in InlineTags : HtmlStartInline(tag)
  \/ \E href \in Hrefs : HtmlStartA(href)
  \/ Br
  \/ \E t \in TextChunks : Text(t)
  \/ EndTag
  \/ Finish

SpecHtml == Init /\ [][NextHtml]_vars

(***************************************************************************)
(* The renderer alone: a walk that has collected any sequence of blocks    *)
(* reaches the end of the document.                                        *)
(***************************************************************************)
\* finished blocks: headings and list items hold one line, a paragraph may
\* hold line breaks
RenderBlocks ==
  {[kind |-> k, text |-> <<"a">>] : k \in {"h2", "h3", "li", "p"}}
  \cup {[kind |-> "p", text |-> t] : t \in {<<"a", "\n", "b">>, <<"a", "\n", "\n", "b">>}}

BlockSeqs == UNION {[1..n -> RenderBlocks] : n \in 0..MaxBlocks}

InitRender ==
  /\ \E bs \in BlockSeqs :
       state = [InitState EXCEPT !.blocks = bs, !.collectingTitle = (bs = <<>>)]
  /\ open = <<>>
  /\ liClosed = 0
  /\ owner = 0
  /\ textIn = 0
  /\ pieces = <<>>
  /\ nEvents = 0
  /\ nMeta = 0
  /\ done = FALSE
  /\ result = NoResult
  /\ worker = Extracting

SpecRender == InitRender /\ [][Finish]_vars

(***************************************************************************)
(* The title reducer alone: a walk whose h1 elements held any sequence of  *)
(* text chunks reaches the end of the document.                            *)
(***************************************************************************)
\* text chunks of h1 elements: "a", "b", " ", "&amp;nbsp;" and "a&amp;nbsp;"
\* (the last two are stored as "&nbsp;" and "a&nbsp;")
TitleChunks ==
  {<<"a">>, <<"b">>, <<" ">>,
   <<"&", "a", "m", "p", ";", "n", "b", "s", "p", ";">>,
   <<"a", "&", "a", "m", "p", ";", "n", "b", "s", "p", ";">>}

ChunkSeqs == UNION {[1..n -> TitleChunks] : n \in 0..MaxParts}

RECURSIVE H1Texts(_, _)
\* the state after the h1 text handler ran on each chunk in turn
H1Texts(st, chunks) ==
  IF chunks = <<>> THEN st ELSE H1Texts(h1Text(st, Head(chunks)), Tail(chunks))

InitTitle ==
  /\ \E chunks \in ChunkSeqs : state = H1Texts(InitState, chunks)
  /\ open = <<>>
  /\ liClosed = 0
  /\ owner = 0
  /\ textIn = 0
  /\ pieces = <<>>
  /\ nEvents = 0
  /\ nMeta = 0
  /\ done = FALSE
  /\ result = NoResult
  /\ worker = Extracting

SpecTitle == InitTitle /\ [][Finish]_vars

(***************************************************************************)
(* One paragraph alone: <p>, then any sequence of text chunks and <br>,    *)
(* then </p> and the end of the document.                                  *)
(***************************************************************************)
\* text chunks inside the paragraph: "a", " ", "&#10;" (a newline once
\* decoded) and "__SSMD_BR__" (text that spells the marker)
ParagraphChunks ==
  {<<"a">>, <<" ">>, <<"&", "#", "1", "0", ";">>, BR_TOKEN}

\* the events inside the paragraph: <br> or a text chunk
ParagraphPieces ==
  {[br |-> TRUE, text |-> <<>>]}
  \cup {[br |-> FALSE, text |-> t] : t \in ParagraphChunks}

PieceSeqs == UNION {[1..n -> ParagraphPieces] : n \in 0..MaxPieces}

RECURSIVE AfterPieces(_, _)
\* the state after the br handler or the text handlers ran on each event
AfterPieces(st, ps) ==
  IF ps = <<>> THEN st
  ELSE AfterPieces(IF Head(ps).br THEN appendToCurrent(st, BR_TOKEN)
                   ELSE TextHandlers(st, {"p"}, Head(ps).text),
                   Tail(ps))

\* the text chunks among ps that are not blank
NonBlank(ps) ==
  Cardinality({i \in 1..Len(ps) : ~ps[i].br /\ normalizeInlineText(ps[i].text) # <<>>})

InitBlock ==
  /\ \E ps \in PieceSeqs :
       /\ state = AfterPieces(beginBlock(stopCollectingTitleIfNeeded(InitState), "p"), ps)
       /\ pieces = ps
       /\ textIn = NonBlank(ps)
       /\ nEvents = 1 + Len(ps)
  /\ open = <<Elem("p", TRUE)>>
  /\ owner = 1
  /\ liClosed = 0
  /\ nMeta = 0
  /\ done = FALSE
  /\ result = NoResult
  /\ worker = Extracting

NextBlock == EndTag \/ Finish

SpecBlock == InitBlock /\ [][NextBlock]_vars

(***************************************************************************)
(* The Worker entrypoint: fetch(request, env, ctx).  The walk is taken as  *)
(* one step that returns some PageResult or throws.                        *)
(***************************************************************************)
IsMarkdownFormat(request) == request.format = "markdown" \/ request.mdPath

\* cleanURL.toString(): "h://x/p", or "h://x/p.md" for a path ending in ".md"
CleanUrl(request) ==
  IF request.mdPath THEN fallbackUrl \o <<".", "m", "d">> ELSE fallbackUrl

\* what fetch(request) resolves to: the upstream's response, whatever it is
UpstreamResponses ==
  {[status |-> st, contentType |-> "text/html", cacheControl |-> "",
    body |-> <<"<", "p", ">">>] : st \in {200, 404}}

\* values extractPageDataFromHtml returns: title and description are
\* inline-normalized text, "\"" coming from &quot;; url is the canonical
\* link (here h://c/", from href="h://c/&quot;") or the fallback URL
PageResults(request) ==
  [title : {<<>>, <<"a">>, <<"\"">>},
   description : {<<>>, <<"d">>, <<"\"">>},
   url : {CleanUrl(request), <<"h", ":", "/", "/", "c", "/", "\"">>},
   content : {<<>>, <<"#", "#", " ", "a">>}]

\* error.message of what the step threw
ErrorMessage(step) == <<step>>

\* a catch block that returns what was assembled so far as Markdown
Catch_PartialMarkdown(w, step) ==
  [w EXCEPT !.thrown = step, !.pc = "done",
            !.response = [status |-> 200,
                          contentType |-> "text/markdown; charset=utf-8",
                          cacheControl |-> "public, max-age=3600",
                          body |-> w.markdown]]

\* the catch block: the handler returns the error response
Catch(w, step) ==
  [w EXCEPT !.thrown = step, !.pc = "done",
            !.response = [status |-> 500, contentType |-> "text/plain",
                          cacheControl |-> "",
                          body |-> <<"E", "r", "r", "o", "r", ":", " ">>
                                   \o ErrorMessage(step)]]

WalkIdle ==
  UNCHANGED <<state, open, liClosed, owner, textIn, pieces, nEvents, nMeta, done, result>>

\* not a markdown request: return fetch(request)
Passthrough ==
  /\ worker.pc = "start"
  /\ ~IsMarkdownFormat(worker.request)
  /\ \E r \in UpstreamResponses :
       worker' = [worker EXCEPT !.response = r, !.pc = "done"]
  /\ WalkIdle

\* a markdown request: the clean URL is built and the try block entered
EnterTry ==
  /\ worker.pc = "start"
  /\ IsMarkdownFormat(worker.request)
  /\ worker' = [worker EXCEPT !.pc = "html"]
  /\ WalkIdle

\* const html = env.TEST_HTML, or the text of the upstream page, whose fetch
\* may throw
GetHtml ==
  /\ worker.pc = "html"
  /\ \E ok \in (IF worker.env.TEST_HTML THEN {TRUE} ELSE BOOLEAN) :
       worker' = IF ok THEN [worker EXCEPT !.pc = "extract",
                                           !.completed = @ \cup {"fetch"}]
                 ELSE Catch(worker, "fetch")
  /\ WalkIdle

\* const pageData = await extractPageDataFromHtml(...), which may throw
Extract ==
  /\ worker.pc = "extract"
  /\ \E ok \in BOOLEAN, pd \in PageResults(worker.request) :
       worker' = IF ok THEN [worker EXCEPT !.pc = "build", !.pageData = pd,
                                           !.completed = @ \cup {"extract"}]
                 ELSE Catch(worker, "extract")
  /\ WalkIdle

\* the arguments of buildMarkdown: pageData's fields with their defaults
MarkdownOf(w) ==
  LET pageData == w.pageData
      title == IF pageData.title # <<>> THEN pageData.title ELSE <<"P", "a", "g", "e">>
      pageUrl == IF pageData.url # <<>> THEN pageData.url ELSE CleanUrl(w.request)
  IN buildMarkdown(title, pageData.description, pageUrl, pageData.content)

\* const markdown = buildMarkdown(...); a throw here is a RangeError of the
\* string concatenation
Build ==
  /\ worker.pc = "build"
  /\ \E ok \in BOOLEAN :
       worker' = IF ok THEN [worker EXCEPT !.pc = "ga4", !.markdown = MarkdownOf(worker),
                                           !.completed = @ \cup {"build"}]
                 ELSE Catch(worker, "build")
  /\ WalkIdle

\* the GA4 block with the dispatch awaited inside the try block
Ga4Block_Awaited ==
  /\ worker.pc = "ga4"
  /\ IF worker.env.GA4_MEASUREMENT_ID /\ worker.env.GA4_API_SECRET
     THEN \E ok \in BOOLEAN :
            worker' = IF ok THEN [worker EXCEPT !.pc = "respond", !.sent = "resolved",
                                                !.p = "fulfilled"]
                      ELSE [Catch(worker, "") EXCEPT !.sent = "rejected"]
     ELSE worker' = [worker EXCEPT !.pc = "respond"]
  /\ WalkIdle

\* the GA4 block: when both bindings are set the event is dispatched,
\* p = sendGa4Event(env, eventBody).catch(() => {}) is left pending and
\* handed to ctx.waitUntil if there is one
Ga4Block ==
  /\ worker.pc = "ga4"
  /\ worker' = IF worker.env.GA4_MEASUREMENT_ID /\ worker.env.GA4_API_SECRET
                THEN [worker EXCEPT !.pc = "respond", !.sent = "pending",
                                    !.p = "pending", !.waited = worker.waitUntil]
                ELSE [worker EXCEPT !.pc = "respond"]
  /\ WalkIdle

\* return new Response(markdown, ...)
Respond ==
  /\ worker.pc = "respond"
  /\ worker' = [worker EXCEPT !.pc = "done",
                 !.response = [status |-> 200,
                               contentType |-> "text/markdown; charset=utf-8",
                               cacheControl |-> "public, max-age=3600",
                               body |-> worker.markdown]]
  /\ WalkIdle

\* the POST to GA4 resolves after the handler returned: .then(() => {})
Ga4Resolves ==
  /\ worker.pc = "done"
  /\ worker.sent = "pending"
  /\ worker' = [worker EXCEPT !.sent = "resolved", !.p = "fulfilled"]
  /\ WalkIdle

\* the POST to GA4 rejects after the handler returned: .catch(() => {})
\* fulfils p
Ga4Rejects ==
  /\ worker.pc = "done"
  /\ worker.sent = "pending"
  /\ worker' = [worker EXCEPT !.sent = "rejected", !.p = "fulfilled"]
  /\ WalkIdle

InitWorker ==
  /\ state = InitState
  /\ open = <<>>
  /\ liClosed = 0
  /\ owner = 0
  /\ textIn = 0
  /\ pieces = <<>>
  /\ nEvents = 0
  /\ nMeta = 0
  /\ done = FALSE
  /\ result = NoResult
  /\ \E request \in Requests, env \in Envs, waitUntil \in BOOLEAN :
       worker = NewWorker(request, env, waitUntil)

NextWorker ==
  \/ Passthrough
  \/ EnterTry
  \/ GetHtml
  \/ Extract
  \/ Build
  \/ Ga4Block
  \/ Respond
  \/ Ga4Resolves
  \/ Ga4Rejects

SpecWorker == InitWorker /\ [][NextWorker]_vars

(***************************************************************************)
(* Properties of the walk.                                                 *)
(***************************************************************************)
\* the innermost open element
TopElem == open[Len(open)]

\* this step is a block-start event that opens a block
OpensBlock ==
  \/ StartLi
  \/ \E tag \in BlockTags : StartBlock(tag) /\ state.inLiDepth = 0

\* C1: a block-start event (h2, h3, p, li) opens a block only when the
\* open-block slot is free: no block begins while another is still open.
C1_BlockStartsOnlyWhenSlotFree ==
  [][OpensBlock => state.current = Null]_vars

RECURSIVE CountKind(_, _)
\* the number of blocks of a kind
CountKind(blocks, kind) ==
  IF blocks = <<>> THEN 0
  ELSE (IF Head(blocks).kind = kind THEN 1 ELSE 0) + CountKind(Tail(blocks), kind)

\* C2: every li element, outer or inner, whose own text (outside nested list
\* items and hyperlinks) normalizes to a non-empty string has yielded a
\* list-item block by the time it is closed.
C2_EveryLiWithTextYieldsBlock ==
  CountKind(state.blocks, "li") >= liClosed

\* this step is a text chunk inside a p that is nested in an li
TextInNestedP(t) ==
  /\ Text(t)
  /\ \E i, j \in 1..Len(open) : i < j /\ open[i].tag = "li" /\ open[j].tag = "p"

\* C3: while the nesting counter is positive an h2, h3 or p start opens no
\* block and leaves the open li block in place; a text chunk inside a p nested
\* in an li (outside hyperlinks) is appended once to the enclosing li block;
\* and no p block is open or emitted while the counter is positive.
C3_NestingSuppression ==
  [][/\ \A tag \in BlockTags :
          StartBlock(tag) /\ state.inLiDepth > 0 => state' = state
     /\ \A t \in TextChunks :
          TextInNestedP(t) /\ state.linkStack = <<>> =>
            /\ state.current.kind = "li"
            /\ state'.current = [kind |-> "li", text |-> state.current.text \o t]
            /\ state'.blocks = state.blocks
     /\ state.inLiDepth > 0 =>
          /\ state.current.kind # "p"
          /\ CountKind(state'.blocks, "p") = CountKind(state.blocks, "p")
    ]_vars

\* this step appends text, a bold or italic marker or a line-break marker
AppendsInline ==
  \/ Br
  \/ \E t \in TextChunks : Text(t)
  \/ \E tag \in InlineTags : StartInline(tag)
  \/ EndTag /\ TopElem.tag \in InlineTags

\* what the step may append
Appended ==
  {BR_TOKEN, <<"*">>, <<"*", "*">>, <<>>} \cup TextChunks

\* C4: while the link stack is non-empty, text and inline markers are
\* appended to the top frame only: the open block, the emitted blocks, the
\* lower frames and the top frame's href are unchanged by the event.
C4_LinkCapture ==
  [][state.linkStack # <<>> /\ nMeta' = nMeta /\ ~done' /\ AppendsInline =>
       LET n == Len(state.linkStack)
       IN /\ state'.current = state.current
          /\ state'.blocks = state.blocks
          /\ Len(state'.linkStack) = n
          /\ \A i \in 1..(n - 1) : state'.linkStack[i] = state.linkStack[i]
          /\ state'.linkStack[n].href = state.linkStack[n].href
          /\ \E s \in Appended :
               state'.linkStack[n].text = state.linkStack[n].text \o s
          /\ state.current # Null /\ (Br \/ ~\E t \in TextChunks : Text(t)) =>
               state'.linkStack[n].text # state.linkStack[n].text
    ]_vars

\* a link frame has captured a marker and a text chunk while a block is open
C4_Witness ==
  /\ state.current # Null
  /\ state.current.text = <<>>
  /\ state.linkStack # <<>>
  /\ Contains(state.linkStack[Len(state.linkStack)].text, <<"*", "*", "a">>)

\* C5: no emitted block and no rendered content contains the line-break
\* marker token.
C5_NoMarkerInOutput ==
  /\ \A i \in 1..Len(state.blocks) : ~Contains(state.blocks[i].text, BR_TOKEN)
  /\ ~Contains(result.content, BR_TOKEN)

\* this step is the end tag of a hyperlink
EndsLink == EndTag /\ TopElem.tag = "a"

\* the display text of a popped frame: its normalized text, else its href
DisplayText(link) ==
  LET norm == normalizeInlineText(link.text)
  IN IF norm # <<>> THEN norm ELSE link.href

LinkFragment(link) ==
  <<"[">> \o DisplayText(link) \o <<"]", "(">> \o link.href \o <<")">>

\* C6 as stated: on hyperlink end the frame is popped and, if its display
\* text is non-empty, the fragment is appended to the new top frame if the
\* stack is still non-empty, otherwise to the open block.
C6_FragmentAlwaysAppended ==
  [][EndsLink =>
       LET n == Len(state.linkStack)
           link == state.linkStack[n]
       IN /\ Len(state'.linkStack) = n - 1
          /\ DisplayText(link) # <<>> /\ n > 1 =>
               state'.linkStack[n - 1].text =
                 state.linkStack[n - 1].text \o LinkFragment(link)
          /\ DisplayText(link) # <<>> /\ n = 1 /\ state.current # Null =>
               state'.current.text = state.current.text \o LinkFragment(link)
    ]_vars

\* C6 amended: on hyperlink end the frame is popped; if its display text (the
\* normalized text, or the resolved href when that is empty) is non-empty and
\* a block is open, the fragment is appended to the new top frame if the stack
\* is still non-empty, otherwise to the open block; with no block open, or an
\* empty display text, nothing is appended.
C6_FragmentAppendedWhenBlockOpen ==
  [][Len(open') < Len(open) /\ EndsLink =>
       LET n == Len(state.linkStack)
           link == state.linkStack[n]
           popped == [state EXCEPT !.linkStack = SubSeq(@, 1, n - 1)]
       IN IF DisplayText(link) = <<>> \/ state.current = Null
          THEN state' = popped
          ELSE IF n > 1
          THEN state' = [popped EXCEPT !.linkStack[n - 1].text = @ \o LinkFragment(link)]
          ELSE state' = [popped EXCEPT !.current.text = @ \o LinkFragment(link)]
    ]_vars

\* a link with no text has ended inside a paragraph: the fragment shows the
\* resolved href "h://x/a" as its display text
C6_Witness ==
  LET u == <<"h", ":", "/", "/", "x", "/", "a">>
  IN /\ state.linkStack = <<>>
     /\ state.current = [kind |-> "p", text |-> <<"[">> \o u \o <<"]", "(">> \o u \o <<")">>]

\* this step is a block start of one of the four kinds
StartsBlockElement == StartLi \/ \E tag \in BlockTags : StartBlock(tag)

\* C7: the collecting-title flag starts true, stays true until the first
\* block start, is false after every block start and never true again; once
\* it is false no event changes the title fragments.
C7_TitleFlagOneShot ==
  [][/\ nEvents = 0 => state.collectingTitle
     /\ StartsBlockElement => ~state'.collectingTitle
     /\ state.collectingTitle /\ ~StartsBlockElement => state'.collectingTitle
     /\ ~state.collectingTitle =>
          /\ ~state'.collectingTitle
          /\ state'.titleParts = state.titleParts
    ]_vars

\* after a list item began, a text chunk arrived inside an h1: it went to the
\* open block and not to the title
C7_Witness ==
  /\ ~state.collectingTitle
  /\ Len(open) = 2 /\ open[1].tag = "li" /\ open[2].tag = "h1"
  /\ state.current = [kind |-> "li", text |-> <<"a">>]
  /\ state.titleParts = <<>>

\* the text endBlock stores for the open block
FinalText(cur) ==
  IF cur.kind \in {"h2", "h3", "li"}
  THEN normalizeInlineText(cur.text)
  ELSE normalizeBlockText(cur.text)

\* this step is an end tag whose handler finalizes the open block
FinalizesBlock ==
  /\ EndTag
  /\ TopElem.reg
  /\ TopElem.tag \in BlockTags \cup {"li"}
  /\ state.current # Null

\* C8: every emitted block has non-empty text, and finalizing an open block
\* whose text normalizes to empty leaves the output sequence unchanged and
\* clears the open-block slot.
C8_NoEmptyBlocks ==
  [][/\ \A i \in 1..Len(state'.blocks) : Trim(state'.blocks[i].text) # <<>>
     /\ Len(open') < Len(open) /\ FinalizesBlock /\ FinalText(state.current) = <<>> =>
          /\ state'.blocks = state.blocks
          /\ state'.current = Null
    ]_vars

\* an open paragraph holds text that normalizes to empty and its end tag is next
C8_Witness ==
  /\ CanStep
  /\ open # <<>> /\ TopElem = [tag |-> "p", reg |-> TRUE, own |-> <<>>]
  /\ state.current.kind = "p"
  /\ state.current.text # <<>>
  /\ normalizeBlockText(state.current.text) = <<>>

\* the attribute values of the metadata tags, inline-normalized
NormalizedValue ==
  [v \in DescriptionValues \cup CanonicalValues |-> normalizeInlineText(v)]

\* C9: description and canonical URL are each set by the first tag of their
\* kind whose normalized value is non-empty, and never change once non-empty;
\* a tag of one kind leaves the other value alone, and no other event changes
\* either.
C9_MetadataFirstNonEmptyWins ==
  [][IF nMeta' = nMeta
     THEN /\ state'.description = state.description
          /\ state'.canonical = state.canonical
     ELSE /\ \A v \in DescriptionValues :
               \/ state'.description = IF state.description # <<>>
                                       THEN state.description
                                       ELSE NormalizedValue[v]
               \/ ~MetaDescription(v)
          /\ \A v \in CanonicalValues :
               \/ state'.canonical = IF state.canonical # <<>>
                                     THEN state.canonical
                                     ELSE NormalizedValue[v]
               \/ ~LinkCanonical(v)
          /\ \/ state'.description = state.description
             \/ state.description = <<>> /\ \E v \in DescriptionValues : MetaDescription(v)
          /\ \/ state'.canonical = state.canonical
             \/ state.canonical = <<>> /\ \E v \in CanonicalValues : LinkCanonical(v)
    ]_vars

\* three metadata tags were seen and both values are set: a tag was skipped,
\* as empty before the first value or as a later tag of a kind already set
C9_Witness ==
  /\ nMeta = 3
  /\ state.description = <<"d">>
  /\ state.canonical = <<"h", ":", "/", "/", "c", "/">>

\* the separator the renderer owes between two consecutive blocks
Separator(b, next) ==
  IF b.kind = "li" /\ next.kind = "li" THEN <<"\n">> ELSE <<"\n", "\n">>

RECURSIVE TightText(_)
\* the block lines with no blank line between two list items and exactly one
\* blank line between any other two consecutive blocks
TightText(blocks) ==
  IF blocks = <<>> THEN <<>>
  ELSE IF Len(blocks) = 1 THEN BlockLine(blocks[1])
  ELSE BlockLine(blocks[1]) \o Separator(blocks[1], blocks[2]) \o TightText(Tail(blocks))

\* C10: the rendered text has no blank line between the lines of two
\* consecutive list-item blocks and exactly one blank line between any two
\* consecutive blocks of which at least one is not a list item.
C10_ListTightness ==
  done => result.content = TightText(state.blocks)

\* two list items followed by a paragraph have been rendered
C10_Witness ==
  /\ done
  /\ Len(state.blocks) = 3
  /\ state.blocks[1].kind = "li" /\ state.blocks[2].kind = "li"
  /\ state.blocks[3].kind = "p"
  /\ result.content = <<"-", " ", "a", "\n", "-", " ", "a", "\n", "\n", "a">>
\* the normalized fragments of parts from index i on that are non-empty and
\* equal to no normalized fragment before them
RECURSIVE FirstOccurrences(_, _)
FirstOccurrences(parts, i) ==
  IF i > Len(parts) THEN <<>>
  ELSE LET n == normalizeInlineText(parts[i])
       IN (IF n # <<>> /\ \A j \in 1..(i - 1) : normalizeInlineText(parts[j]) # n
           THEN <<n>> ELSE <<>>)
          \o FirstOccurrences(parts, i + 1)

\* C11: the title returned is the normalized title fragments that are
\* non-empty, each kept at its first occurrence only, joined by single
\* spaces; it is empty when no fragment survives.
C11_TitleReducer ==
  done => LET kept == FirstOccurrences(state.titleParts, 1)
          IN /\ result.title = JoinWith(kept, <<" ">>)
             /\ \A i, j \in 1..Len(kept) : i # j => kept[i] # kept[j]
             /\ kept = <<>> => result.title = <<>>

\* "a", "b", then "a&nbsp;" (equal to "a" once normalized): the title is "a b"
C11_Witness ==
  /\ done
  /\ state.titleParts = <<<<"a">>, <<"b">>, <<"a", "&", "n", "b", "s", "p", ";">>>>
  /\ result.title = <<"a", " ", "b">>

\* C13: the url returned is the stored canonical URL when a non-empty one
\* was stored during the walk and the fallback URL otherwise; a walk that
\* stored no metadata, no title fragment and no block returns empty title,
\* description and content and the fallback URL.
C13_ResultUrl ==
  done =>
    /\ result.url = IF state.canonical # <<>> THEN state.canonical ELSE fallbackUrl
    /\ (state.description = <<>> /\ state.canonical = <<>>
         /\ state.titleParts = <<>> /\ state.blocks = <<>>)
        => result = [title |-> <<>>, description |-> <<>>,
                     url |-> fallbackUrl, content |-> <<>>]

\* a walk that met <link rel="canonical" href="h://c/"> and a paragraph
C13_Witness ==
  /\ done
  /\ state.canonical = <<"h", ":", "/", "/", "c", "/">>
  /\ state.blocks # <<>>
  /\ result.url = <<"h", ":", "/", "/", "c", "/">>

\* what new URL(href, base) serializes to for the hrefs and bases of the
\* model, with the raw href where the base is no URL: base is the canonical
\* URL stored, else the fallback URL "h://x/p"
ExpectedHref(href, canonical) ==
  CASE canonical = <<"h", ":", "/", "/", "c", "/">> ->
         IF href = <<>> THEN canonical ELSE <<"h", ":", "/", "/", "c">> \o href
    [] canonical = <<>> ->
         IF href = <<>> THEN fallbackUrl ELSE <<"h", ":", "/", "/", "x">> \o href
    [] OTHER -> href

\* C14: the start of a hyperlink pushes a frame whose href is the attribute
\* resolved against the canonical URL stored at that moment, else against
\* the fallback URL; no later step, a canonical tag included, changes the
\* href of a frame already pushed.
C14_HrefResolvedAtLinkStart ==
  [][/\ \A href \in Hrefs :
          Len(open') > Len(open) /\ StartA(href) =>
            state'.linkStack = Append(state.linkStack,
                                      [href |-> ExpectedHref(href, state.canonical),
                                       text |-> <<>>])
     /\ \A i \in 1..Len(state.linkStack) :
          i <= Len(state'.linkStack) =>
            state'.linkStack[i].href = state.linkStack[i].href]_vars

\* <a href="/a"> opened before any canonical tag, then canonical "h://c/":
\* the frame keeps the href resolved against the fallback URL, "h://x/a"
C14_Witness ==
  /\ state.canonical = <<"h", ":", "/", "/", "c", "/">>
  /\ state.linkStack = <<[href |-> <<"h", ":", "/", "/", "x", "/", "a">>, text |-> <<>>]>>

\* new URL(href, base) throws for the base now in force
Unresolvable(href) ==
  ~ResolveUrl(href, IF state.canonical # <<>> THEN state.canonical ELSE fallbackUrl).ok

\* C15: the start of a hyperlink whose href cannot be resolved pushes a
\* frame holding the raw attribute value and changes nothing else; the
\* element is open with its end handler registered and the walk goes on.
C15_UnresolvableLinkKeepsRawHref ==
  [][\A href \in Hrefs :
       Len(open') > Len(open) /\ StartA(href) /\ Unresolvable(href) =>
         /\ state' = [state EXCEPT
                        !.linkStack = Append(@, [href |-> href, text |-> <<>>])]
         /\ open' = Append(open, Elem("a", TRUE))
         /\ ~done']_vars

\* canonical "c" is no base; <p><a href="/a">a</a> then leaves [a](/a) in
\* the paragraph
C15_Witness ==
  /\ state.canonical = <<"c">>
  /\ state.linkStack = <<>>
  /\ state.current = [kind |-> "p",
                      text |-> <<"[", "a", "]", "(", "/", "a", ")">>]

\* C19: whenever the end of an h2, h3, p or li element finalizes the open
\* block, that block was opened by the start of that same element and has
\* the element's kind.
C19_EndFinalizesOwnBlock ==
  [][Len(open') < Len(open) /\ state.current # Null /\ FinalizesBlock =>
       /\ owner = Len(open)
       /\ state.current.kind = TopElem.tag]_vars

\* <li>a<li>a: the inner li, whose end tag is next, owns the open block
C19_Witness ==
  /\ CanStep
  /\ Len(open) = 2
  /\ open[1].tag = "li" /\ open[1].own = <<"a">>
  /\ TopElem.tag = "li" /\ TopElem.reg
  /\ owner = 2
  /\ state.current = [kind |-> "li", text |-> <<"a">>]

RECURSIVE CountText(_, _)
\* the number of "a" characters of s that come from text chunks: those not
\* right after a "/", where the "a" of an href stands; prev is the character
\* before s
CountText(s, prev) ==
  IF s = <<>> THEN 0
  ELSE (IF Head(s) = "a" /\ prev # "/" THEN 1 ELSE 0) + CountText(Tail(s), Head(s))

RECURSIVE TextInBlocks(_)
\* the number of text chunks "a" found in the text of the blocks
TextInBlocks(blocks) ==
  IF blocks = <<>> THEN 0
  ELSE CountText(Head(blocks).text, "") + TextInBlocks(Tail(blocks))

\* C20: at the end of the walk every non-blank text chunk that was
\* delivered inside an h2, h3, p or li element is found in the text of some
\* block of the output.
C20_NoCapturedTextLost ==
  done => TextInBlocks(state.blocks) >= textIn

\* the li elements now open
OpenLi == Cardinality({i \in 1..Len(open) : open[i].tag = "li"})

\* the counter counts the open li elements; once the walk has ended it is
\* zero, no block is open and no link frame is left
LiCounterInv ==
  /\ state.inLiDepth >= 0
  /\ state.inLiDepth = OpenLi
  /\ done => state.inLiDepth = 0 /\ state.current = Null /\ state.linkStack = <<>>

\* C21: inLiDepth is never negative and equals the number of li elements
\* open; the end of an li finalizes the open block (emits it if its text is
\* non-empty, clears the slot) and leaves the counter one lower; at the end
\* of the walk the counter is zero, no block is open and the link stack is
\* empty.
C21_LiCounterCountsOpenLi ==
  [][/\ LiCounterInv
     /\ LiCounterInv'
     /\ Len(open') < Len(open) /\ TopElem.tag = "li" /\ EndTag =>
          /\ state'.inLiDepth = state.inLiDepth - 1
          /\ state'.current = Null
          /\ state'.blocks =
               IF state.current # Null /\ FinalText(state.current) # <<>>
               THEN Append(state.blocks, [kind |-> state.current.kind,
                                          text |-> FinalText(state.current)])
               ELSE state.blocks
    ]_vars

\* <li><li>: two li elements are open and the counter is 2
C21_Witness ==
  /\ Len(open) = 2
  /\ open[1].tag = "li" /\ open[2].tag = "li"
  /\ state.inLiDepth = 2

\* this step is a text, line-break, bold or italic event or the end of a
\* hyperlink, met while no block is open
EventWithNoBlock ==
  /\ state.current = Null
  /\ nMeta' = nMeta
  /\ ~done'
  /\ \/ Br
     \/ \E t \in TextChunks : Text(t)
     \/ \E tag \in InlineTags : StartInline(tag)
     \/ EndTag /\ TopElem.tag \in InlineTags \cup {"a"}

\* the step leaves blocks, open-block slot, metadata and the text of every
\* link frame as they are; the end of a hyperlink only pops its frame
DroppedFromContent ==
  /\ state'.blocks = state.blocks
  /\ state'.current = Null
  /\ state'.description = state.description
  /\ state'.canonical = state.canonical
  /\ state'.linkStack =
       IF Len(open') < Len(open) /\ TopElem.tag = "a"
       THEN SubSeq(state.linkStack, 1, Len(state.linkStack) - 1)
       ELSE state.linkStack

\* C22 as stated: with no block open, a text, line-break, bold or italic
\* event and the fragment of a hyperlink end leave the blocks, the
\* open-block slot, the text of every link frame, the title fragments and
\* the metadata unchanged.
C22_EventsWithNoBlockDropped ==
  [][EventWithNoBlock =>
       DroppedFromContent /\ state'.titleParts = state.titleParts]_vars

\* C22, amended: the same, except that a text chunk inside an h1, while the
\* title is still collected, appends its normalized text, if non-empty, to
\* the title fragments.
C22_DroppedExceptTitleText ==
  [][state.current = Null /\ nMeta' = nMeta /\ ~done' =>
       \/ DroppedFromContent /\ state'.titleParts = state.titleParts
       \/ ~EventWithNoBlock
       \/ /\ DroppedFromContent
          /\ state.collectingTitle
          /\ "h1" \in Tags(open)
          /\ \E t \in TextChunks :
               /\ Text(t)
               /\ normalizeInlineText(t) # <<>>
               /\ state'.titleParts
                    = Append(state.titleParts, normalizeInlineText(t))
    ]_vars

\* <a href><strong> outside any block: the marker of the bold start was
\* dropped, the frame's text is still empty
C22_Witness ==
  /\ state.current = Null
  /\ Len(open) = 2 /\ open[1].tag = "a" /\ open[2].tag = "strong"
  /\ Len(state.linkStack) = 1
  /\ state.linkStack[1].text = <<>>

\* this step is the end of the paragraph that owns the open block
EndsParagraph ==
  /\ Len(open') < Len(open)
  /\ TopElem.tag = "p"
  /\ TopElem.reg
  /\ state.current.kind = "p"
  /\ EndTag

\* the text of the block the step emitted, empty if it emitted none
EmittedText ==
  IF Len(state'.blocks) > Len(state.blocks)
  THEN state'.blocks[Len(state'.blocks)].text ELSE <<>>

RECURSIVE Segments(_, _)
\* the text between the br events of ps, cur the segment read so far
Segments(ps, cur) ==
  IF ps = <<>> THEN <<cur>>
  ELSE IF Head(ps).br THEN <<cur>> \o Segments(Tail(ps), <<>>)
  ELSE Segments(Tail(ps), cur \o Head(ps).text)

RECURSIVE StripFront(_)
\* segs without the empty segments at its front
StripFront(segs) ==
  IF segs # <<>> /\ Head(segs) = <<>> THEN StripFront(Tail(segs)) ELSE segs

RECURSIVE StripBack(_)
StripBack(segs) ==
  IF segs # <<>> /\ segs[Len(segs)] = <<>>
  THEN StripBack(SubSeq(segs, 1, Len(segs) - 1)) ELSE segs

RECURSIVE Squeeze(_)
\* segs with every run of empty segments cut down to one
Squeeze(segs) ==
  IF Len(segs) < 2 THEN segs
  ELSE IF segs[1] = <<>> /\ segs[2] = <<>> THEN Squeeze(Tail(segs))
  ELSE <<Head(segs)>> \o Squeeze(Tail(segs))

\* the lines a paragraph made of the events ps is to show: its segments
\* inline-normalized, one line each, no empty line first or last and never
\* two empty lines in a row
ExpectedLines(ps) ==
  LET segs == Segments(ps, <<>>)
      norm == [i \in 1..Len(segs) |-> normalizeInlineText(segs[i])]
  IN Squeeze(StripBack(StripFront(norm)))

\* C23: the final text of a paragraph is its text segments, normalized,
\* with one newline for each line-break event between them (two segments
\* separated by one br are separated by one newline), runs of breaks cut to
\* two newlines; it has no three newlines in a row, neither starts nor ends
\* with a newline or a space, and has no space next to a newline.
C23_LineBreaksPreserved ==
  [][EndsParagraph =>
       LET final == EmittedText
           n == Len(final)
       IN /\ final = JoinWith(ExpectedLines(pieces), <<"\n">>)
          /\ \A i \in 1..(n - 2) :
               ~(final[i] = "\n" /\ final[i + 1] = "\n" /\ final[i + 2] = "\n")
          /\ n > 0 => ~IsSpace(final[1]) /\ ~IsSpace(final[n])
          /\ \A i \in 1..(n - 1) :
               /\ ~(final[i] = " " /\ final[i + 1] = "\n")
               /\ ~(final[i] = "\n" /\ final[i + 1] = " ")
    ]_vars

\* the br events among ps
BrEvents(ps) == Cardinality({i \in 1..Len(ps) : ps[i].br})

\* the newlines of text
Newlines(text) == Cardinality({i \in 1..Len(text) : text[i] = "\n"})

\* C24: the line-break marker does not collide with content: an emitted
\* paragraph holds no more newlines than line-break events occurred while it
\* was open, so a paragraph made of text events alone, whatever their
\* characters (the marker string included), holds no newline.
C24_NewlinesOnlyFromLineBreaks ==
  [][EndsParagraph => Newlines(EmittedText) <= BrEvents(pieces)]_vars

(***************************************************************************)
(* Properties of the Worker entrypoint.                                    *)
(***************************************************************************)
RECURSIVE SplitLines(_, _)
\* the lines of s, cur the line read so far
SplitLines(s, cur) ==
  IF s = <<>> THEN <<cur>>
  ELSE IF Head(s) = "\n" THEN <<cur>> \o SplitLines(Tail(s), <<>>)
  ELSE SplitLines(Tail(s), Append(cur, Head(s)))

\* the value written on a frontmatter line: what stands between the opening
\* quote after "key: " and the closing quote at the end of the line
FrontmatterValue(line, keyLen) == SubSeq(line, keyLen + 4, Len(line) - 1)

\* every double quote of v has a backslash before it
QuotesEscaped(v) == \A i \in 1..Len(v) : v[i] = "\"" => i > 1 /\ v[i - 1] = "\\"

\* C12: in the document assembled, every double quote inside the value of
\* the title, description and url frontmatter lines has a backslash before
\* it, while the H1 line and the blockquote line hold the raw title and the
\* raw description.
C12_FrontmatterQuotesEscaped ==
  "build" \in worker.completed =>
    LET lines == SplitLines(worker.markdown, <<>>)
        title == IF worker.pageData.title # <<>> THEN worker.pageData.title
                 ELSE <<"P", "a", "g", "e">>
        description == worker.pageData.description
    IN /\ QuotesEscaped(FrontmatterValue(lines[3], 5))
       /\ QuotesEscaped(FrontmatterValue(lines[4], 11))
       /\ QuotesEscaped(FrontmatterValue(lines[5], 3))
       /\ lines[8] = <<"#", " ">> \o title
       /\ description # <<>> => lines[10] = <<">", " ">> \o description

\* C16: a request whose format query parameter is not "markdown" never
\* enters the markdown path (no fetch of the page's HTML, no extraction, no
\* assembly) and is answered with what fetch(request) resolved to.
C16_PassthroughUnlessFormatMarkdown ==
  worker.request.format # "markdown" =>
    /\ worker.pc \in {"start", "done"}
    /\ worker.completed = {}
    /\ worker.thrown = ""
    /\ worker.pc = "done" => worker.response \in UpstreamResponses

\* C17: a markdown request in which the fetch of the page, the extraction
\* or the assembly threw is answered 500 text/plain with "Error: " and the
\* error's message; a response is 200 text/markdown only when the three
\* steps completed, its body then being the whole assembled document.
C17_FailureGivesErrorResponse ==
  worker.pc = "done" /\ IsMarkdownFormat(worker.request) =>
    /\ worker.thrown # "" =>
         /\ worker.response.status = 500
         /\ worker.response.contentType = "text/plain"
         /\ worker.response.body
              = <<"E", "r", "r", "o", "r", ":", " ">> \o ErrorMessage(worker.thrown)
    /\ (worker.response.status = 200
         \/ worker.response.contentType = "text/markdown; charset=utf-8") =>
         /\ worker.thrown = ""
         /\ worker.completed = {"fetch", "extract", "build"}
         /\ worker.response.status = 200
         /\ worker.response.contentType = "text/markdown; charset=utf-8"
         /\ worker.response.body = MarkdownOf(worker)
    /\ worker.response.status \in {200, 500}

\* the page was fetched, then extractPageDataFromHtml threw
C17_Witness ==
  /\ worker.pc = "done"
  /\ worker.completed = {"fetch"}
  /\ worker.thrown = "extract"
  /\ worker.response.status = 500

\* the response to a markdown request of a Worker without the GA4 bindings:
\* the error response if a step threw, else 200 with the assembled document
ResponseWithoutAnalytics(w) ==
  IF w.thrown # "" THEN Catch(w, w.thrown).response
  ELSE [status |-> 200, contentType |-> "text/markdown; charset=utf-8",
        cacheControl |-> "public, max-age=3600", body |-> MarkdownOf(w)]

\* C18: whether the GA4 bindings are set or not, and whether the dispatch
\* is still pending, has resolved or has rejected, the response to a
\* markdown request has the status, headers and body it has without
\* analytics.
C18_AnalyticsNeverChangesResponse ==
  worker.pc = "done" /\ IsMarkdownFormat(worker.request) =>
    worker.response = ResponseWithoutAnalytics(worker)

\* the response was returned, then the POST to GA4 rejected
C18_Witness ==
  /\ worker.pc = "done"
  /\ worker.sent = "rejected"
  /\ worker.waited
  /\ worker.response.status = 200
====
